---- MODULE Spec2Model ----
(***************************************************************************)
(* SectorFlux: the streaming proxy engine (ProxyHandler), the write-behind *)
(* store (Database) and the /ws/chat session handlers (main.cpp).          *)
(*                                                                         *)
(* Strings are modelled as sequences of pieces, so that concatenation is   *)
(* \o and the empty string is << >>.  Monotonic time is kept per call as   *)
(* the nanoseconds elapsed since the call read start_time.                 *)
(***************************************************************************)
EXTENDS Integers, Sequences, FiniteSets, TLC

\* ------------------------------------------------------------------ bounds
MaxCalls == 1        \* proxied calls (HTTP requests and /ws/chat turns) per run
MaxChunks == 2       \* chunks upstream sends within one response
MaxSubmit == 3       \* direct log submissions in the store specification
MaxBodyLen == 4      \* pieces of a response body given to extractMetrics
MaxRows == 3         \* largest row id of the table setStarred is tried on
MaxObservers == 2    \* /ws/dashboard connections
MaxTurns == 2        \* text messages on the /ws/chat connection of the chat specification
PreRows == 99        \* rows a persisted requests table may already hold

\* ------------------------------------------------------- program constants
kMaxHistoryEntries == 100
kNanosecondsPerMillisecond == 1000000

\* ------------------------------------------------------------------ inputs
Bodies == {"p", "q"}                  \* request bodies of HTTP proxied POSTs
NoCacheHeaders == {"", "true"}        \* values of X-SectorFlux-No-Cache
Endpoints == {"/api/generate"}
WsMsgs == {"p", "bad"}                \* text frames a /ws/chat client sends
Fixture == <<"x", "y", "z", "w">>     \* the pieces of an upstream response
Statuses == {200, 404}                \* statuses upstream may answer with
SendErrors == {"Connection"}          \* httplib::Error of a failed send
Delays == {400000, 1000000}           \* ns that pass between two clock reads

NoEntry == [status |-> 0, body |-> << >>]
NoResponse == [code |-> 0, body |-> << >>, cache |-> "none"]
NoTask == [kind |-> "none"]

VARIABLES
    \* Database
    requests,            \* table requests: set of rows [id, e, is_starred]
    seq,                 \* AUTOINCREMENT sequence of table requests
    cache,               \* table cache: request_body -> [status, body] or NoEntry
    write_queue_,        \* std::queue of log tasks (their captured arguments)
    shutdown_requested_,
    stop_requested,      \* stop token of write_worker_
    db_open,             \* sqlite3 handle db_ is open
    w_pc,                \* write worker position
    w_final,             \* worker is in the processWriteQueue after its loop
    w_task,              \* task the worker took from the queue
    d_pc,                \* ~Database position
    notifier,            \* threads between the push and the notify_one of
                         \* logInteractionAsync
    submitted,           \* history: number of logInteractionAsync calls made
    preloaded,           \* history: rows the table held at start
    \* ProxyHandler
    cache_enabled_,
    calls,               \* history: proxied calls started
    \* one HTTP server thread in handleRequest
    h_pc, h_body, h_nocache, h_endpoint,
    h_elapsed,           \* ns since start_time
    h_ttft_ms, h_accum,  \* ttft_ms, accumulated_response
    h_res,               \* crow::response res: [code, body, cache]
    h_client,            \* what the client has been sent (res.end())
    h_result,            \* result of cli.send: "none", "ok" or "error"
    h_chunks,            \* history: chunks upstream sent in this call
    h_lookups, h_puts,   \* history: cache lookups / cache stores of this call
    h_entry,             \* history: the log entry this call submitted
    h_flag_off,          \* history: cache_enabled_ was false all through this call
    h_trace,             \* history: what this call has done so far, in order:
                         \* "lookup", "send" (cli.send returned), "cache",
                         \* "end" (res.end()), "log" (logInteractionAsync)
    \* one /ws/chat connection (main.cpp) and its workers
    ws_conn,             \* "new", "open" (in g_connections) or "closed"
    active,              \* ConnectionState::active
    ws,                  \* the workers started for the connection, oldest first
    \* one call of ProxyHandler::extractMetrics
    response,            \* its argument
    metrics,             \* what it returned, NoMetrics before the call
    caught,              \* history: the call ended in catch (...)
    \* calls of Database::setStarred
    st_op,               \* history: the last call [id, is_starred]
    st_prev,             \* history: the call before it
    st_before,           \* history: table requests before the last call
    \* DashboardBroadcaster
    connections_,        \* the observers: handles of /ws/dashboard connections
    b_pc,                \* position of the ticker thread (worker_)
    b_msg,               \* running_model of the snapshot being sent
    b_todo,              \* observers the send loop has yet to visit
    b_sent,              \* history: observers sent the snapshot of this broadcast
    b_stop,              \* stop token of worker_
    \* POST /api/replay/<int>
    rp,                  \* history: [id, n], the id of the last replay request
                         \* and the number of replay requests handled
    \* administrative routes
    db_metrics,          \* what the last Database::getMetrics returned
    cfg,                 \* history: the last /api/config/cache request and the
                         \* response to it
    \* table cache
    cache_by             \* history: for each key the route whose call stored its
                         \* entry ("/api/generate", "/api/chat", "/ws/chat"),
                         \* "none" for a key no call has stored since the start

storeVars == <<requests, seq, write_queue_, shutdown_requested_, stop_requested,
               db_open, w_pc, w_final, w_task, d_pc, notifier, submitted, preloaded>>
httpVars == <<h_pc, h_body, h_nocache, h_endpoint, h_elapsed, h_ttft_ms, h_accum,
              h_res, h_client, h_result, h_chunks, h_lookups, h_puts, h_entry,
              h_flag_off, h_trace>>
wsVars == <<ws_conn, active, ws>>
\* state of the operations that take no part in a proxied call
extractVars == <<response, metrics, caught>>
starVars == <<st_op, st_prev, st_before>>
broadcastVars == <<connections_, b_pc, b_msg, b_todo, b_sent, b_stop>>
replayVars == <<rp>>
adminVars == <<db_metrics, cfg>>
originVars == <<cache_by>>
toolVars == <<extractVars, starVars, broadcastVars, replayVars, adminVars, originVars>>
vars == <<storeVars, cache, cache_enabled_, calls, httpVars, wsVars, toolVars>>

\* ----------------------------------------------------------------- helpers
Min(a, b) == IF a < b THEN a ELSE b

\* std::chrono::duration_cast<std::chrono::milliseconds>: truncation
DurationCastMs(ns) == ns \div 1000000

\* accumulated_response += chunk; res_ptr->body += chunk
AppendChunkReversed(acc, chunk) == chunk \o acc
AppendChunk(acc, chunk) == acc \o chunk

\* the i-th chunk upstream sends: chunks of one response differ pairwise, so
\* that a reordered, dropped or repeated chunk changes the body
ChunkAt(i) == <<Fixture[i]>>
NextChunks(sent) ==
    IF Len(sent) < MaxChunks /\ Len(sent) < Len(Fixture)
      THEN {ChunkAt(Len(sent) + 1)} ELSE {}

RECURSIVE Concat(_)
Concat(chunks) ==
    IF chunks = << >> THEN << >> ELSE Head(chunks) \o Concat(Tail(chunks))

\* if (ttft_ms == 0) ttft_ms = duration_cast<ms>(now - start_time)
RecordTtftRoundUp(ttft, elapsed) ==
    IF ttft = 0 THEN DurationCastMs(elapsed) + 1 ELSE ttft
RecordTtft(ttft, elapsed) ==
    IF ttft = 0 THEN DurationCastMs(elapsed) ELSE ttft

\* the arguments a log task captures; via is history: the path that made it
LogEntry(endpoint, request_body, status, response_body, duration_ms, ttft_ms, via) ==
    [kind |-> "log", method |-> "POST", endpoint |-> endpoint,
     request_body |-> request_body, response_status |-> status,
     response_body |-> response_body, duration_ms |-> duration_ms,
     ttft_ms |-> ttft_ms, via |-> via]

\* ---------------------------------------------------------------- Database
\* SELECT response_status, response_body FROM cache WHERE request_body = ?
getCachedResponse(request_body) == cache[request_body]

\* INSERT OR REPLACE INTO cache
cacheResponse(request_body, status, body) ==
    [cache EXCEPT ![request_body] = [status |-> status, body |-> body]]

\* INSERT INTO requests (...): id from the sequence, is_starred DEFAULT 0
Row(id, e) == [id |-> id, e |-> e, is_starred |-> FALSE]

\* condition_variable::notify_one: wakes the worker if it is blocked in wait
NotifyNobody(pc) == pc
NotifyOne(pc) == IF pc = "blocked" THEN "wait" ELSE pc

\* where processWriteQueue returns to: the loop, or the thread's end
AfterProcess == IF w_final THEN "exited" ELSE "loop"

\* DELETE FROM requests WHERE id NOT IN (SELECT id ... ORDER BY id DESC LIMIT ?)
NewestOrStarred(rows, n) ==
    {r \in rows : r.is_starred \/ Cardinality({s \in rows : s.id > r.id}) < n}
Newest(rows, n) ==
    {r \in rows : Cardinality({s \in rows : s.id > r.id}) < n}

\* while (!stop_token.stop_requested()) processWriteQueue(); processWriteQueue();
WorkerLoop ==
    /\ w_pc = "loop"
    /\ w_pc' = "wait"
    /\ w_final' = stop_requested
    /\ UNCHANGED <<requests, seq, write_queue_, shutdown_requested_, stop_requested,
                   db_open, w_task, d_pc, notifier, submitted, preloaded>>

\* the predicate of queue_cv_.wait: !write_queue_.empty() || shutdown_requested_
WaitIsOverQueueOnly(q, shutdown) == q # << >>
WaitIsOver(q, shutdown) == q # << >> \/ shutdown

\* processWriteQueue under queue_mutex_: the predicate of queue_cv_.wait, then
\* either block, return on an empty queue, or take the front task
WorkerWait ==
    /\ w_pc = "wait"
    /\ IF ~WaitIsOver(write_queue_, shutdown_requested_)
         THEN /\ w_pc' = "blocked"
              /\ UNCHANGED <<write_queue_, w_task>>
         ELSE IF write_queue_ = << >>
             THEN /\ w_pc' = AfterProcess
                  /\ UNCHANGED <<write_queue_, w_task>>
             ELSE /\ w_task' = Head(write_queue_)
                  /\ write_queue_' = Tail(write_queue_)
                  /\ w_pc' = "insert"
    /\ UNCHANGED <<requests, seq, shutdown_requested_, stop_requested, db_open,
                   w_final, d_pc, notifier, submitted, preloaded>>

\* a spurious wake-up of condition_variable::wait
WorkerSpurious ==
    /\ w_pc = "blocked"
    /\ w_pc' = "wait"
    /\ UNCHANGED <<requests, seq, write_queue_, shutdown_requested_, stop_requested,
                   db_open, w_final, w_task, d_pc, notifier, submitted, preloaded>>

\* logInteractionSync, first statement: INSERT INTO requests.  On a handle that
\* sqlite3_close has already closed the outcome is undefined: the row may or
\* may not be written.
WorkerInsert ==
    /\ w_pc = "insert"
    /\ \E written \in IF db_open THEN {TRUE} ELSE {TRUE, FALSE} :
        IF written
          THEN /\ seq' = seq + 1
               /\ requests' = requests \cup {Row(seq + 1, w_task)}
               /\ w_pc' = "prune"
               /\ UNCHANGED w_task
          ELSE /\ w_pc' = AfterProcess
               /\ w_task' = NoTask
               /\ UNCHANGED <<requests, seq>>
    /\ UNCHANGED <<write_queue_, shutdown_requested_, stop_requested, db_open,
                   w_final, d_pc, notifier, submitted, preloaded>>

\* where the worker goes when logInteractionSync has returned an error text:
\* the task prints "Async log failed" and returns to processWriteQueue
AfterFailedTaskStops == "exited"
AfterFailedTask == AfterProcess

\* logInteractionSync on the open handle, when sqlite3_prepare_v2 or
\* sqlite3_step of the INSERT fails: it returns before the DELETE
WorkerInsertFails ==
    /\ w_pc = "insert"
    /\ db_open
    /\ w_pc' = AfterFailedTask
    /\ w_task' = NoTask
    /\ UNCHANGED <<requests, seq, write_queue_, shutdown_requested_, stop_requested,
                   db_open, w_final, d_pc, notifier, submitted, preloaded>>

\* logInteractionSync, second statement: enforce the history limit
WorkerPrune ==
    /\ w_pc = "prune"
    /\ requests' = Newest(requests, kMaxHistoryEntries)
    /\ w_pc' = AfterProcess
    /\ w_task' = NoTask
    /\ UNCHANGED <<seq, write_queue_, shutdown_requested_, stop_requested, db_open,
                   w_final, d_pc, notifier, submitted, preloaded>>

Worker == WorkerLoop \/ WorkerWait \/ WorkerInsert \/ WorkerPrune

\* one whole round of the worker while the store is alive and writes succeed:
\* processWriteQueue takes the front task and logInteractionSync runs both of
\* its statements
ProcessWriteQueue ==
    /\ w_pc = "loop"
    /\ d_pc = "alive"
    /\ write_queue_ # << >>
    /\ write_queue_' = Tail(write_queue_)
    /\ seq' = seq + 1
    /\ requests' = Newest(requests \cup {Row(seq + 1, Head(write_queue_))},
                          kMaxHistoryEntries)
    /\ UNCHANGED <<shutdown_requested_, stop_requested, db_open, w_pc, w_final,
                   w_task, d_pc, notifier, submitted, preloaded>>

\* processWriteQueue holds queue_mutex_ from its unique_lock to the end of its
\* first block, which WorkerWait runs as one step; inside queue_cv_.wait the
\* mutex is released, and task() is called after the block.  So at none of its
\* positions between two steps does the worker hold the mutex.
WorkerHoldsMutexInTask(pc) == pc \in {"insert", "prune"}
WorkerHoldsMutex(pc) == FALSE

\* logInteractionAsync, under queue_mutex_: write_queue_.push(task)
EnqueueFront(q, entry) == <<entry>> \o q
Enqueue(q, entry) == Append(q, entry)

\* the threads that submit in the store specification
Callers == {"caller"}

\* logInteractionAsync, after the lock is released: queue_cv_.notify_one()
LogNotify(t) ==
    /\ t \in notifier
    /\ notifier' = notifier \ {t}
    /\ w_pc' = NotifyOne(w_pc)
    /\ UNCHANGED <<requests, seq, write_queue_, shutdown_requested_, stop_requested,
                   db_open, w_final, w_task, d_pc, submitted, preloaded>>

\* ~Database: { lock_guard; shutdown_requested_ = true; }
DtorSignal ==
    /\ d_pc = "alive"
    /\ notifier = {}
    /\ shutdown_requested_' = TRUE
    /\ d_pc' = "notify"
    /\ UNCHANGED <<requests, seq, write_queue_, stop_requested, db_open, w_pc,
                   w_final, w_task, notifier, submitted, preloaded>>

\* ~Database: queue_cv_.notify_one()
DtorNotify ==
    /\ d_pc = "notify"
    /\ w_pc' = NotifyOne(w_pc)
    /\ d_pc' = "close"
    /\ UNCHANGED <<requests, seq, write_queue_, shutdown_requested_, stop_requested,
                   db_open, w_final, w_task, notifier, submitted, preloaded>>

\* ~Database: if (db_) sqlite3_close(db_).  While the worker is inside
\* logInteractionSync a statement may be unfinalized, and sqlite3_close then
\* returns SQLITE_BUSY and leaves the handle open.
DtorClose ==
    /\ d_pc = "close"
    /\ \E closed \in IF w_pc \in {"insert", "prune"} THEN {TRUE, FALSE} ELSE {TRUE} :
           db_open' = (db_open /\ ~closed)
    /\ d_pc' = "stop"
    /\ UNCHANGED <<requests, seq, write_queue_, shutdown_requested_, stop_requested,
                   w_pc, w_final, w_task, notifier, submitted, preloaded>>

\* the members are destroyed after the destructor's body: ~jthread of
\* write_worker_ requests stop ...
DtorStop ==
    /\ d_pc = "stop"
    /\ stop_requested' = TRUE
    /\ d_pc' = "join"
    /\ UNCHANGED <<requests, seq, write_queue_, shutdown_requested_, db_open, w_pc,
                   w_final, w_task, notifier, submitted, preloaded>>

\* ... and joins the worker; then write_queue_ is destroyed with what it holds
DtorJoin ==
    /\ d_pc = "join"
    /\ w_pc = "exited"
    /\ d_pc' = "done"
    /\ UNCHANGED <<requests, seq, write_queue_, shutdown_requested_, stop_requested,
                   db_open, w_pc, w_final, w_task, notifier, submitted, preloaded>>

\* a caller's logInteractionAsync, under queue_mutex_: write_queue_.push(task);
\* its notify_one follows as LogNotify
SubmitLog(t, entry) ==
    /\ d_pc = "alive"
    /\ t \notin notifier
    /\ ~WorkerHoldsMutex(w_pc)
    /\ submitted < MaxSubmit
    /\ write_queue_' = Enqueue(write_queue_, entry)
    /\ submitted' = submitted + 1
    /\ notifier' = notifier \cup {t}
    /\ UNCHANGED <<requests, seq, shutdown_requested_, stop_requested, db_open, w_pc,
                   w_final, w_task, d_pc, preloaded>>

Dtor == DtorSignal \/ DtorNotify \/ DtorClose \/ DtorStop \/ DtorJoin

\* what a handler that calls logInteractionAsync (push and notify_one) leaves
\* alone in the store
storeRest == <<requests, seq, shutdown_requested_, stop_requested, db_open,
               w_final, w_task, d_pc, notifier, preloaded>>

\* ------------------------------------------------- ProxyHandler::handleRequest
\* bool skip_cache = !cache_enabled_ || header X-SectorFlux-No-Cache == "true"
SkipCacheFlagOnly(enabled, header) == ~enabled
SkipCache(enabled, header) == ~enabled \/ header = "true"

\* if (res.code == 200 && !accumulated_response.empty()) on a successful send
StoresAnyResponse(code, acc) == TRUE
StoresResponse(code, acc) == code = 200 /\ acc # << >>

\* "Error forwarding request to Ollama: " + to_string(result.error())
ErrorBodyBare(err) == <<err>>
ErrorBody(err) == <<"Error forwarding request to Ollama: ", err>>

\* res.end(): the response is handed to the client
ResEnd(res) == res

\* the statements of handleRequest on a hit, after the lookup: res.end(), then
\* logInteractionAsync
HitPath == <<"end", "log">>

\* the statements of handleRequest after cli.send has returned: cacheResponse
\* if the response is stored, res.end(), then logInteractionAsync
ForwardPathLogFirst(stores) ==
    <<"send", "log">> \o (IF stores THEN <<"cache">> ELSE << >>) \o <<"end">>
ForwardPath(stores) ==
    <<"send">> \o (IF stores THEN <<"cache">> ELSE << >>) \o <<"end", "log">>

\* entry of handleRequest up to the cache decision; on a hit the whole hit path
HandleRequestUpTo(body, header, endpoint, limit) ==
    /\ h_pc = "idle"
    /\ d_pc = "alive"
    /\ calls < limit
    /\ calls' = calls + 1
    /\ h_body' = body
    /\ h_nocache' = header
    /\ h_endpoint' = endpoint
    /\ h_elapsed' = 0
    /\ h_ttft_ms' = 0
    /\ h_accum' = << >>
    /\ h_chunks' = << >>
    /\ h_result' = "none"
    /\ h_puts' = 0
    /\ h_flag_off' = ~cache_enabled_
    /\ LET skip_cache == SkipCache(cache_enabled_, header)
           cached == getCachedResponse(body)
       IN  /\ h_lookups' = IF skip_cache THEN 0 ELSE 1
           /\ h_trace' = (IF skip_cache THEN << >> ELSE <<"lookup">>)
                            \o (IF ~skip_cache /\ cached # NoEntry THEN HitPath
                                                                    ELSE << >>)
           /\ IF ~skip_cache /\ cached # NoEntry
                THEN /\ h_res' = [code |-> cached.status, body |-> cached.body,
                                  cache |-> "HIT"]
                     /\ h_client' = ResEnd(h_res')
                     /\ h_entry' = LogEntry(endpoint, body, cached.status,
                                            cached.body, 0, 0, "hit")
                     /\ write_queue_' = Enqueue(write_queue_, h_entry')
                     /\ submitted' = submitted + 1
                     /\ w_pc' = NotifyOne(w_pc)
                     /\ h_pc' = "idle"
                ELSE /\ h_res' = [code |-> 200, body |-> << >>, cache |-> "MISS"]
                     /\ h_client' = NoResponse
                     /\ h_entry' = NoTask
                     /\ h_pc' = "send"
                     /\ UNCHANGED <<write_queue_, submitted, w_pc>>
    /\ UNCHANGED <<storeRest, cache, cache_enabled_, wsVars, extractVars, starVars,
                   broadcastVars, adminVars, originVars>>

HandleRequest(body, header, endpoint) ==
    HandleRequestUpTo(body, header, endpoint, MaxCalls)

\* req_http.content_receiver, called by cli.send for one upstream chunk
ContentReceiver(chunk, dt) ==
    /\ h_pc = "send"
    /\ chunk \in NextChunks(h_chunks)
    /\ h_chunks' = Append(h_chunks, chunk)
    /\ h_elapsed' = h_elapsed + dt
    /\ h_ttft_ms' = RecordTtft(h_ttft_ms, h_elapsed')
    /\ h_accum' = AppendChunk(h_accum, chunk)
    /\ h_res' = [h_res EXCEPT !.body = AppendChunk(h_res.body, chunk)]
    /\ UNCHANGED <<storeVars, cache, cache_enabled_, calls, h_pc, h_body, h_nocache,
                   h_endpoint, h_client, h_result, h_lookups, h_puts, h_entry, h_trace,
                   h_flag_off, wsVars, toolVars>>

\* cli.send returned a response with this status: cache, res.end(), log
SendSucceeds(status, dt) ==
    /\ h_pc = "send"
    /\ LET stores == StoresResponse(status, h_accum)
       IN  /\ cache' = IF stores THEN cacheResponse(h_body, status, h_accum)
                       ELSE cache
           /\ h_puts' = IF stores THEN h_puts + 1 ELSE h_puts
           /\ h_trace' = h_trace \o ForwardPath(stores)
           /\ cache_by' = IF stores THEN [cache_by EXCEPT ![h_body] = h_endpoint]
                          ELSE cache_by
    /\ h_res' = [h_res EXCEPT !.code = status]
    /\ h_client' = ResEnd(h_res')
    /\ h_result' = "ok"
    /\ h_elapsed' = h_elapsed + dt
    /\ h_entry' = LogEntry(h_endpoint, h_body, status, h_accum,
                           DurationCastMs(h_elapsed'), h_ttft_ms, "forward")
    /\ write_queue_' = Enqueue(write_queue_, h_entry')
    /\ submitted' = submitted + 1
    /\ w_pc' = NotifyOne(w_pc)
    /\ h_pc' = "idle"
    /\ UNCHANGED <<storeRest, cache_enabled_, calls, h_body, h_nocache, h_endpoint,
                   h_ttft_ms, h_accum, h_chunks, h_lookups, h_flag_off, wsVars,
                   extractVars, starVars, broadcastVars, replayVars, adminVars>>

\* cli.send failed (connect error, timeout): 500 and the error text, then log
SendFails(err, dt) ==
    /\ h_pc = "send"
    /\ h_res' = [h_res EXCEPT !.code = 500, !.body = ErrorBody(err)]
    /\ h_accum' = ErrorBody(err)
    /\ h_trace' = h_trace \o ForwardPath(FALSE)
    /\ h_client' = ResEnd(h_res')
    /\ h_result' = "error"
    /\ h_elapsed' = h_elapsed + dt
    /\ h_entry' = LogEntry(h_endpoint, h_body, 500, h_accum',
                           DurationCastMs(h_elapsed'), h_ttft_ms, "forward")
    /\ write_queue_' = Enqueue(write_queue_, h_entry')
    /\ submitted' = submitted + 1
    /\ w_pc' = NotifyOne(w_pc)
    /\ h_pc' = "idle"
    /\ UNCHANGED <<storeRest, cache, cache_enabled_, calls, h_body, h_nocache,
                   h_endpoint, h_ttft_ms, h_chunks, h_lookups, h_puts, h_flag_off,
                   wsVars, toolVars>>

\* POST /api/config/cache: proxy_handler.setCacheEnabled(enabled).  The
\* histories of the calls note that the flag has been true.
setCacheEnabled(enabled) ==
    /\ d_pc = "alive"
    /\ cache_enabled_ # enabled
    /\ cache_enabled_' = enabled
    /\ h_flag_off' = (h_flag_off /\ ~enabled)
    /\ ws' = [i \in DOMAIN ws |->
                 [ws[i] EXCEPT !.flag_off = (ws[i].flag_off /\ ~enabled)]]
    /\ UNCHANGED <<storeVars, cache, calls, h_pc, h_body, h_nocache, h_endpoint,
                   h_elapsed, h_ttft_ms, h_accum, h_res, h_client, h_result,
                   h_chunks, h_lookups, h_puts, h_entry, h_trace, ws_conn, active,
                   toolVars>>

\* routes POST /api/generate and POST /api/chat
ProxyRoute(body, header, endpoint) ==
    /\ HandleRequest(body, header, endpoint)
    /\ UNCHANGED rp

\* db.getLog(id): SELECT ... FROM requests WHERE id = ?
HasLog(id) == \E r \in requests : r.id = id
getLog(id) == CHOOSE r \in requests : r.id = id

\* replay_req.add_header("X-SectorFlux-No-Cache", "true")
ReplayHeaderNone == ""
ReplayHeader == "true"

\* route POST /api/replay/<int>
Replay(id) ==
    /\ rp' = [id |-> id, n |-> rp.n + 1]
    /\ IF HasLog(id)
         THEN LET log == getLog(id)
              IN  HandleRequest(log.e.request_body, ReplayHeader, log.e.endpoint)
         ELSE /\ h_pc = "idle"
              /\ d_pc = "alive"
              /\ rp.n < MaxCalls
              /\ h_res' = [code |-> 404, body |-> <<"Log entry not found">>,
                           cache |-> "none"]
              /\ h_client' = ResEnd(h_res')
              /\ UNCHANGED <<storeVars, cache, cache_enabled_, calls, h_pc, h_body,
                             h_nocache, h_endpoint, h_elapsed, h_ttft_ms, h_accum,
                             h_result, h_chunks, h_lookups, h_puts, h_entry, h_trace,
                             h_flag_off, wsVars, extractVars, starVars,
                             broadcastVars, adminVars, originVars>>

Http ==
    \/ \E body \in Bodies, header \in NoCacheHeaders, endpoint \in Endpoints :
           ProxyRoute(body, header, endpoint)
    \/ \E chunk \in NextChunks(h_chunks), dt \in Delays : ContentReceiver(chunk, dt)
    \/ \E status \in Statuses, dt \in Delays : SendSucceeds(status, dt)
    \/ \E err \in SendErrors, dt \in Delays : SendFails(err, dt)
    \/ \E enabled \in BOOLEAN : setCacheEnabled(enabled)

\* ---------------------------------------- ProxyHandler::handleWebSocketRequest
\* crow::json::load(message) yields a value
ValidJson(message) == message # "bad"

\* content_receiver: if (!is_active) return false
SinkNeverAborts(is_active) == FALSE
SinkAborts(is_active) == ~is_active

\* after cli.send: if (is_active) { ... log and cache ... }
LogsAnyTurn(is_active) == TRUE
LogsTurn(is_active) == is_active

\* after cli.send, while active: if (!result || result->status != 200)
UpstreamFailedNoResult(ok, status) == ~ok
UpstreamFailed(ok, status) == ~ok \/ status # 200

\* the locals of one run of handleWebSocketRequest; after_close, closed_early,
\* logged, puts and flag_off are history, and so are err (the error frame sent
\* to the client), lookups (cache lookups made) and upstream (cli.send called)
NewWorker(message) ==
    [pc |-> "start", msg |-> message, elapsed |-> 0, ttft_ms |-> 0,
     full_response |-> << >>, chunks |-> << >>, ok |-> FALSE, status |-> 0,
     after_close |-> 0, closed_early |-> FALSE, logged |-> 0, puts |-> 0,
     flag_off |-> ~cache_enabled_, err |-> "", lookups |-> 0, upstream |-> FALSE]

Workers == 1..Len(ws)
\* the worker's thread function has returned
Ended(i) == ws[i].pc = "done"

\* parse, then the cache check; on a hit the whole hit path
WsStart(i) ==
    /\ ws[i].pc = "start"
    /\ LET w == ws[i]
           cached == getCachedResponse(w.msg)
       IN  IF ~ValidJson(w.msg)
             THEN /\ ws' = [ws EXCEPT ![i].pc = "done",
                                      ![i].err = "{\"error\": \"Invalid JSON\"}"]
                  /\ UNCHANGED <<write_queue_, submitted, w_pc>>
             ELSE IF cache_enabled_ /\ cached # NoEntry
               THEN /\ write_queue_' = Enqueue(write_queue_,
                           LogEntry("/api/chat", w.msg, cached.status, cached.body,
                                    0, 0, "hit"))
                    /\ submitted' = submitted + 1
                    /\ w_pc' = NotifyOne(w_pc)
                    /\ ws' = [ws EXCEPT ![i].pc = "done", ![i].logged = 1,
                                        ![i].lookups = 1]
               ELSE /\ ws' = [ws EXCEPT ![i].pc = "send", ![i].upstream = TRUE,
                                        ![i].lookups = IF cache_enabled_ THEN 1 ELSE 0]
                    /\ UNCHANGED <<write_queue_, submitted, w_pc>>
    /\ UNCHANGED <<storeRest, cache, cache_enabled_, calls, httpVars, toolVars, ws_conn,
                   active>>

\* content_receiver up to its return or its send: ttft, then the active check
WsSinkEnter(i, chunk, dt) ==
    /\ ws[i].pc = "send"
    /\ chunk \in NextChunks(ws[i].chunks)
    /\ LET w == ws[i]
           elapsed == w.elapsed + dt
           entered == [w EXCEPT !.elapsed = elapsed,
                                !.ttft_ms = RecordTtft(w.ttft_ms, elapsed),
                                !.chunks = Append(w.chunks, chunk),
                                !.after_close = w.after_close +
                                    (IF ws_conn = "closed" THEN 1 ELSE 0)]
       IN  ws' = [ws EXCEPT ![i] =
                IF SinkAborts(active)
                  THEN [entered EXCEPT !.pc = "post", !.ok = FALSE, !.status = 0,
                                       !.closed_early = (ws_conn = "closed")]
                  ELSE [entered EXCEPT !.pc = "sinksend"]]
    /\ UNCHANGED <<storeVars, cache, cache_enabled_, calls, httpVars, toolVars, ws_conn,
                   active>>

\* content_receiver: full_response += chunk; conn.send_text(chunk); return true
WsSinkSend(i) ==
    /\ ws[i].pc = "sinksend"
    /\ LET w == ws[i]
       IN  ws' = [ws EXCEPT ![i].pc = "send",
                           ![i].full_response =
                               AppendChunk(w.full_response, w.chunks[Len(w.chunks)])]
    /\ UNCHANGED <<storeVars, cache, cache_enabled_, calls, httpVars, toolVars, ws_conn,
                   active>>

\* cli.send returns: a response with a status, or an error
WsSendReturns(i, ok, status) ==
    /\ ws[i].pc = "send"
    /\ ws' = [ws EXCEPT ![i].pc = "post", ![i].ok = ok, ![i].status = status,
                        ![i].closed_early = (ws_conn = "closed")]
    /\ UNCHANGED <<storeVars, cache, cache_enabled_, calls, httpVars, toolVars, ws_conn,
                   active>>

\* after cli.send: the error frame, or the log submission
WsPost(i, dt) ==
    /\ ws[i].pc = "post"
    /\ LET w == ws[i]
           elapsed == w.elapsed + dt
       IN  IF LogsTurn(active) /\ ~UpstreamFailed(w.ok, w.status)
             THEN /\ write_queue_' = Enqueue(write_queue_,
                         LogEntry("/api/chat", w.msg, 200, w.full_response,
                                  DurationCastMs(elapsed), w.ttft_ms, "forward"))
                  /\ submitted' = submitted + 1
                  /\ w_pc' = NotifyOne(w_pc)
                  /\ ws' = [ws EXCEPT ![i].pc = "postcache", ![i].elapsed = elapsed,
                                      ![i].logged = 1]
             ELSE /\ ws' = [ws EXCEPT ![i].pc = "done",
                                      ![i].err = IF active
                                          THEN "{\"error\": \"Failed to connect to Ollama\"}"
                                          ELSE ""]
                  /\ UNCHANGED <<write_queue_, submitted, w_pc>>
    /\ UNCHANGED <<storeRest, cache, cache_enabled_, calls, httpVars, toolVars, ws_conn,
                   active>>

\* if (cache_enabled_ && !full_response.empty()) db_.cacheResponse(message, ...)
WsPostCache(i) ==
    /\ ws[i].pc = "postcache"
    /\ LET w == ws[i]
           stores == cache_enabled_ /\ w.full_response # << >>
       IN  /\ cache' = IF stores THEN cacheResponse(w.msg, 200, w.full_response)
                       ELSE cache
           /\ cache_by' = IF stores THEN [cache_by EXCEPT ![w.msg] = "/ws/chat"]
                          ELSE cache_by
           /\ ws' = [ws EXCEPT ![i].pc = "done",
                               ![i].puts = IF stores THEN 1 ELSE 0]
    /\ UNCHANGED <<storeVars, cache_enabled_, calls, httpVars, ws_conn, active,
                   extractVars, starVars, broadcastVars, replayVars, adminVars>>

\* ------------------------------------------------- /ws/chat handlers (main.cpp)
\* The handlers of one connection run on that connection's io thread, one at a
\* time; the workers they start are threads of their own.

\* onopen: g_connections[&conn] = make_shared<ConnectionState>()
OnOpen ==
    /\ ws_conn = "new"
    /\ d_pc = "alive"
    /\ ws_conn' = "open"
    /\ active' = TRUE
    /\ UNCHANGED <<storeVars, cache, cache_enabled_, calls, httpVars, toolVars, ws>>

\* onmessage: state->active = true; state->worker = std::jthread(...).  The new
\* thread is started first; the move assignment then joins the previous worker,
\* and the handler thread stays in onmessage until that worker has ended.
HandlerBusy == Len(ws) >= 2 /\ ~Ended(Len(ws) - 1)

\* onmessage: it = g_connections.find(&conn); if (it != g_connections.end()).
\* onopen inserts the connection and onclose erases it.
FoundUnlessNew(conn) == conn # "new"
Found(conn) == conn = "open"

\* use_count of the connection's shared_ptr<ConnectionState> between two
\* handlers: the entry of g_connections while the connection is in the map, and
\* the copy captured by the lambda of every worker thread that has not ended
\* (a handler's local copy is gone when the handler returns)
UseCount ==
    (IF ws_conn = "open" THEN 1 ELSE 0)
        + Cardinality({i \in DOMAIN ws : ws[i].pc # "done"})

OnMessageUpTo(message, limit) ==
    /\ Found(ws_conn)
    /\ ~HandlerBusy
    /\ d_pc = "alive"
    /\ calls < limit
    /\ calls' = calls + 1
    /\ active' = TRUE
    /\ ws' = Append(ws, NewWorker(message))
    /\ UNCHANGED <<storeVars, cache, cache_enabled_, httpVars, toolVars, ws_conn>>

OnMessage(message) == OnMessageUpTo(message, MaxCalls)

\* onclose: erase the connection from g_connections; state->active = false
OnClose ==
    /\ ws_conn = "open"
    /\ ~HandlerBusy
    /\ ws_conn' = "closed"
    /\ active' = FALSE
    /\ UNCHANGED <<storeVars, cache, cache_enabled_, calls, httpVars, toolVars, ws>>

Chat ==
    \/ OnOpen
    \/ \E message \in WsMsgs : OnMessage(message)
    \/ OnClose
    \/ \E i \in Workers : WsStart(i)
    \/ \E i \in Workers, dt \in Delays :
           \E chunk \in NextChunks(ws[i].chunks) : WsSinkEnter(i, chunk, dt)
    \/ \E i \in Workers : WsSinkSend(i)
    \/ \E i \in Workers, status \in Statuses : WsSendReturns(i, TRUE, status)
    \/ \E i \in Workers : WsSendReturns(i, FALSE, 0)
    \/ \E i \in Workers, dt \in Delays : WsPost(i, dt)
    \/ \E i \in Workers : WsPostCache(i)

\* ------------------------------------------------ ProxyHandler::extractMetrics
\* A response body is a sequence of pieces: a newline, a blank, other text, an
\* opening brace that starts no complete JSON text, or the whole text of one
\* JSON object (the keys of Json).  Indices are counted from 0 as in the code.
Absent == [t |-> "absent"]
Null == [t |-> "null"]
Num(n) == [t |-> "number", v |-> n]
Bool(b) == [t |-> "bool", v |-> b]
Obj(pec, ec, ped, ed, done) ==
    [prompt_eval_count |-> pec, eval_count |-> ec, prompt_eval_duration |-> ped,
     eval_duration |-> ed, done |-> done]

Json ==
    [summary  |-> Obj(Num(7), Num(9), Num(2500000), Num(3999999), Bool(TRUE)),
     chunk    |-> Obj(Absent, Absent, Absent, Absent, Bool(FALSE)),
     done     |-> Obj(Absent, Absent, Absent, Absent, Bool(TRUE)),
     part     |-> Obj(Absent, Num(5), Absent, Absent, Absent),
     badcount |-> Obj(Num(7), Null, Absent, Absent, Bool(TRUE)),
     baddone  |-> Obj(Absent, Absent, Absent, Absent, Num(1))]
NoJson == [t |-> "error"]
Pieces == {"\n", " ", "t", "{"} \cup DOMAIN Json
ResponseBodies == UNION {[1..n -> Pieces] : n \in 0..MaxBodyLen}

ZeroMetrics ==
    [prompt_tokens |-> 0, completion_tokens |-> 0,
     prompt_eval_duration_ms |-> 0, eval_duration_ms |-> 0]
NoMetrics == [pending |-> TRUE]

Max(S) == CHOOSE x \in S : \A y \in S : y <= x
Least(S) == CHOOSE x \in S : \A y \in S : x <= y

\* response.rfind('\n', from): the last newline at an index <= from, npos as -1
RFind(s, from) ==
    LET hits == {i \in 0..Min(from, Len(s) - 1) : s[i + 1] = "\n"}
    IN  IF hits = {} THEN -1 ELSE Max(hits)

\* response.substr(start, count)
Substr(s, start, count) == SubSeq(s, start + 1, Min(start + count, Len(s)))

\* find_first_not_of / find_last_not_of(" \t\r\n"), then substr; a line of
\* blanks only is left as it is
Trim(line) ==
    LET keep == {i \in 1..Len(line) : line[i] \notin {" ", "\n"}}
    IN  IF keep = {} THEN line ELSE SubSeq(line, Least(keep), Max(keep))

\* crow::json::load(line): a value when the whole line is one JSON text
Load(line) ==
    IF Len(line) = 1 /\ line[1] \in DOMAIN Json THEN Json[line[1]] ELSE NoJson

\* line.front() == '{'
FrontIsBrace(line) == line[1] = "{" \/ line[1] \in DOMAIN Json

\* static_cast<int>(std::int64_t): the counts modelled here lie within int,
\* where the cast leaves the value as it is
StaticCastInt(n) == n
\* json[...].i() / kNanosecondsPerMillisecond
NsToMs(n) == n \div kNanosecondsPerMillisecond

\* if (json.has(key)) metrics.field = conv(json[key].i()); i() throws on a
\* value that is no number.  conv is the cast to int for a count and the
\* division to milliseconds for a duration.
ReadField(st, value, field, is_duration) ==
    IF st.threw \/ value = Absent THEN st
    ELSE IF value.t # "number" THEN [st EXCEPT !.threw = TRUE]
    ELSE [st EXCEPT !.m[field] = IF is_duration THEN NsToMs(value.v)
                                 ELSE StaticCastInt(value.v),
                    !.found = TRUE]

\* the four reads of one parsed line, in the order of the code
ReadFields(m, json) ==
    LET s0 == [m |-> m, found |-> FALSE, threw |-> FALSE]
        s1 == ReadField(s0, json.prompt_eval_count, "prompt_tokens", FALSE)
        s2 == ReadField(s1, json.eval_count, "completion_tokens", FALSE)
        s3 == ReadField(s2, json.prompt_eval_duration, "prompt_eval_duration_ms", TRUE)
    IN  ReadField(s3, json.eval_duration, "eval_duration_ms", TRUE)

\* the body of the loop for one line: "break", "throw" or "next", with metrics
ProcessLine(m, raw) ==
    LET line == Trim(raw)
        json == Load(line)
    IN  IF line # << >> /\ FrontIsBrace(line) /\ json # NoJson
          THEN LET r == ReadFields(m, json)
               IN  IF r.threw THEN [kind |-> "throw", m |-> r.m]
                   ELSE IF r.found THEN [kind |-> "break", m |-> r.m]
                   ELSE IF json.done = Absent THEN [kind |-> "next", m |-> r.m]
                   \* json["done"].b() throws on a value that is no boolean
                   ELSE IF json.done.t # "bool" THEN [kind |-> "throw", m |-> r.m]
                   ELSE IF json.done.v THEN [kind |-> "break", m |-> r.m]
                   ELSE [kind |-> "next", m |-> r.m]
          ELSE [kind |-> "next", m |-> m]

\* while (pos > 0) { ... }: the scan from the end of the body backward
RECURSIVE ScanBack(_, _, _)
ScanBack(s, pos, m) ==
    IF pos <= 0 THEN [m |-> m, threw |-> FALSE]
    ELSE LET line_end == pos
             found == RFind(s, pos - 1)
             line_start == IF found = -1 THEN 0 ELSE found + 1
             r == ProcessLine(m, Substr(s, line_start, line_end - line_start))
         IN  IF r.kind = "throw" THEN [m |-> r.m, threw |-> TRUE]
             ELSE IF r.kind = "break" THEN [m |-> r.m, threw |-> FALSE]
             ELSE IF line_start = 0 THEN [m |-> r.m, threw |-> FALSE]
             ELSE ScanBack(s, line_start - 1, r.m)

\* try { scan } catch (...) { } return metrics;
extractMetrics(body) == ScanBack(body, Len(body), ZeroMetrics).m
CaughtException(body) == ScanBack(body, Len(body), ZeroMetrics).threw

ExtractMetrics ==
    /\ metrics = NoMetrics
    /\ metrics' = extractMetrics(response)
    /\ caught' = CaughtException(response)
    /\ UNCHANGED <<storeVars, cache, cache_enabled_, calls, httpVars, wsVars, response,
                   starVars, broadcastVars, replayVars, adminVars, originVars>>

\* ---------------------------------------------------- Database::setStarred
NoCall == [id |-> 0, is_starred |-> FALSE, made |-> FALSE]

\* UPDATE requests SET is_starred = ? WHERE id = ?
UpdateEveryRow(rows, id, is_starred) ==
    {[r EXCEPT !.is_starred = is_starred] : r \in rows}
UpdateStarred(rows, id, is_starred) ==
    {IF r.id = id THEN [r EXCEPT !.is_starred = is_starred] ELSE r : r \in rows}

\* PUT /api/logs/<int>/starred with {"starred": is_starred}: db.setStarred
setStarred(id, is_starred) ==
    /\ d_pc = "alive"
    /\ db_open
    /\ requests' = UpdateStarred(requests, id, is_starred)
    /\ st_before' = requests
    /\ st_prev' = st_op
    /\ st_op' = [id |-> id, is_starred |-> is_starred, made |-> TRUE]
    /\ UNCHANGED <<seq, write_queue_, shutdown_requested_, stop_requested, db_open,
                   w_pc, w_final, w_task, d_pc, notifier, submitted, preloaded>>
    /\ UNCHANGED <<cache, cache_enabled_, calls, httpVars, wsVars, extractVars,
                   broadcastVars, replayVars, adminVars, originVars>>

\* ------------------------------------------------------- Database::getMetrics
\* a double that is the quotient of two ints, kept as the pair
Ratio(num, den) == [num |-> num, den |-> den]
Zero == Ratio(0, 1)                    \* Metrics m = {0, 0.0, 0.0}
NoDbMetrics == [pending |-> TRUE]

RECURSIVE SumDuration(_)
SumDuration(rows) ==
    IF rows = {} THEN 0
    ELSE LET r == CHOOSE x \in rows : TRUE
         IN  r.e.duration_ms + SumDuration(rows \ {r})

\* SELECT COUNT(*) FROM requests
CountAll(rows) == Cardinality(rows)

\* SELECT AVG(duration_ms) FROM requests: NULL on no rows, read as 0.0
AvgDurationOfForwards(rows) ==
    LET slow == {r \in rows : r.e.duration_ms # 0}
    IN  IF slow = {} THEN Zero ELSE Ratio(SumDuration(slow), Cardinality(slow))
AvgDuration(rows) ==
    IF rows = {} THEN Zero ELSE Ratio(SumDuration(rows), Cardinality(rows))

\* SELECT COUNT(*) FROM requests WHERE duration_ms = 0
CountHits(rows) == Cardinality({r \in rows : r.e.duration_ms = 0})

\* the three statements of getMetrics on the table as it is
getMetrics(rows) ==
    LET total_requests == CountAll(rows)
        hits == CountHits(rows)
    IN  [total_requests |-> total_requests,
         avg_latency_ms |-> AvgDuration(rows),
         cache_hit_rate |-> IF total_requests > 0 THEN Ratio(hits, total_requests)
                            ELSE Zero]

\* GET /api/metrics: db.getMetrics() with no write in progress
GetMetrics ==
    /\ d_pc = "alive"
    /\ db_open
    /\ w_pc \in {"loop", "wait", "blocked"}
    /\ write_queue_ = << >>
    /\ db_metrics' = getMetrics(requests)
    /\ UNCHANGED <<storeVars, cache, cache_enabled_, calls, httpVars, wsVars, extractVars,
                   starVars, broadcastVars, replayVars, cfg, originVars>>

\* getMetrics statement by statement, on the table as each statement finds
\* it; until the last one db_metrics holds the local m and the position.
\* First statement: SELECT COUNT(*) FROM requests
MetricsTotal ==
    /\ d_pc = "alive"
    /\ db_open
    /\ "at" \notin DOMAIN db_metrics
    /\ db_metrics' = [at |-> "latency", total_requests |-> CountAll(requests)]
    /\ UNCHANGED <<storeVars, cache, cache_enabled_, calls, httpVars, wsVars, extractVars,
                   starVars, broadcastVars, replayVars, cfg, originVars>>

\* second statement: SELECT AVG(duration_ms) FROM requests
MetricsLatency ==
    /\ "at" \in DOMAIN db_metrics
    /\ db_metrics.at = "latency"
    /\ db_metrics' = [at |-> "hits", total_requests |-> db_metrics.total_requests,
                      avg_latency_ms |-> AvgDuration(requests)]
    /\ UNCHANGED <<storeVars, cache, cache_enabled_, calls, httpVars, wsVars, extractVars,
                   starVars, broadcastVars, replayVars, cfg, originVars>>

\* third statement: SELECT COUNT(*) FROM requests WHERE duration_ms = 0, and
\* the quotient if total_requests > 0; return m
MetricsHits ==
    /\ "at" \in DOMAIN db_metrics
    /\ db_metrics.at = "hits"
    /\ LET hits == CountHits(requests)
           total_requests == db_metrics.total_requests
       IN  db_metrics' =
               [total_requests |-> total_requests,
                avg_latency_ms |-> db_metrics.avg_latency_ms,
                cache_hit_rate |-> IF total_requests > 0
                                     THEN Ratio(hits, total_requests) ELSE Zero]
    /\ UNCHANGED <<storeVars, cache, cache_enabled_, calls, httpVars, wsVars, extractVars,
                   starVars, broadcastVars, replayVars, cfg, originVars>>

\* -------------------------------------------------- routes /api/config/cache
NoConfigRequest == [op |-> "none", body |-> "", code |-> 0, text |-> ""]

\* request bodies of the POST, and what crow::json::load makes of them
ConfigJson ==
    [on |-> [enabled |-> Bool(TRUE)],       \* {"enabled": true}
     off |-> [enabled |-> Bool(FALSE)],     \* {"enabled": false}
     one |-> [enabled |-> Num(1)],          \* {"enabled": 1}
     null |-> [enabled |-> Null],           \* {"enabled": null}
     empty |-> [enabled |-> Absent]]        \* {}
ConfigBodies == DOMAIN ConfigJson \cup {"garbage"}
LoadConfig(body) == IF body \in DOMAIN ConfigJson THEN ConfigJson[body] ELSE NoJson

\* the handler of POST /api/config/cache: "threw" when json["enabled"].b()
\* raises, which the server answers with 500
ConfigPostOutcome(body) ==
    LET json == LoadConfig(body)
    IN  IF json = NoJson THEN [code |-> 400, text |-> "Invalid JSON", set |-> FALSE]
        ELSE IF json.enabled # Absent
          THEN IF json.enabled.t # "bool"
                 THEN [code |-> 500, text |-> "", set |-> FALSE]
                 ELSE [code |-> 200, text |-> "Cache configuration updated",
                       set |-> TRUE]
        ELSE [code |-> 400, text |-> "Missing 'enabled' field", set |-> FALSE]

ConfigPost(body) ==
    /\ d_pc = "alive"
    /\ LET out == ConfigPostOutcome(body)
           enabled == IF out.set THEN LoadConfig(body).enabled.v ELSE cache_enabled_
       IN  /\ cfg' = [op |-> "post", body |-> body, code |-> out.code,
                      text |-> out.text]
           /\ cache_enabled_' = enabled
           /\ h_flag_off' = (h_flag_off /\ ~enabled)
           /\ ws' = [i \in DOMAIN ws |->
                        [ws[i] EXCEPT !.flag_off = (ws[i].flag_off /\ ~enabled)]]
    /\ UNCHANGED <<storeVars, cache, calls, h_pc, h_body, h_nocache, h_endpoint,
                   h_elapsed, h_ttft_ms, h_accum, h_res, h_client, h_result,
                   h_chunks, h_lookups, h_puts, h_entry, h_trace, ws_conn, active,
                   extractVars, starVars, broadcastVars, replayVars, db_metrics, originVars>>

\* GET /api/config/cache: json_response["enabled"] = isCacheEnabled()
ConfigGet ==
    /\ d_pc = "alive"
    /\ cfg' = [op |-> "get", body |-> "", code |-> 200,
               text |-> IF cache_enabled_ THEN "true" ELSE "false"]
    /\ UNCHANGED <<storeVars, cache, cache_enabled_, calls, httpVars, wsVars, extractVars,
                   starVars, broadcastVars, replayVars, db_metrics, originVars>>

\* ------------------------------------------------------ DashboardBroadcaster
Handles == 1..MaxObservers
PsOutcomes == {"model", "none", "fail"}     \* of cli.Get("/api/ps")

\* data["running_model"]
RunningModel(outcome) ==
    IF outcome = "model" THEN "m"
    ELSE IF outcome = "none" THEN "None"
    ELSE "Ollama Offline"

\* where broadcast goes after the /api/ps query: on to the send loop, whatever
\* the outcome
AfterQueryOnlineOnly(outcome) == IF outcome = "fail" THEN "sleep" ELSE "lock"
AfterQuery(outcome) == "lock"

\* mutex_ is held by the send loop of broadcast only; addConnection and
\* removeConnection take it for one statement
MutexNeverHeld == TRUE
MutexFree == b_pc # "send"

otherVars == <<storeVars, cache, cache_enabled_, calls, httpVars, wsVars, extractVars,
               starVars, replayVars, adminVars, originVars>>

\* /ws/dashboard onopen: lock_guard; connections_.insert(conn)
addConnection(h) ==
    /\ MutexFree
    /\ h \notin connections_
    /\ connections_' = connections_ \cup {h}
    /\ UNCHANGED <<b_pc, b_msg, b_todo, b_sent, b_stop, otherVars>>

\* /ws/dashboard onclose: lock_guard; connections_.erase(conn)
removeConnection(h) ==
    /\ MutexFree
    /\ h \in connections_
    /\ connections_' = connections_ \ {h}
    /\ UNCHANGED <<b_pc, b_msg, b_todo, b_sent, b_stop, otherVars>>

\* broadcastLoop: the stop checks around sleep_for
BrWake ==
    /\ b_pc = "sleep"
    /\ b_pc' = IF b_stop THEN "stopped" ELSE "fetch"
    /\ UNCHANGED <<connections_, b_msg, b_todo, b_sent, b_stop, otherVars>>

\* broadcast: getLogs (return without sending if it fails), getMetrics
BrFetch ==
    /\ b_pc = "fetch"
    /\ b_pc' = IF db_open THEN "query" ELSE "sleep"
    /\ UNCHANGED <<connections_, b_msg, b_todo, b_sent, b_stop, otherVars>>

\* broadcast: cli.Get("/api/ps") and data["running_model"]
BrQuery(outcome) ==
    /\ b_pc = "query"
    /\ b_msg' = RunningModel(outcome)
    /\ b_pc' = AfterQuery(outcome)
    /\ UNCHANGED <<connections_, b_todo, b_sent, b_stop, otherVars>>

\* broadcast: std::lock_guard lock(mutex_); the loop starts over connections_
BrLock ==
    /\ b_pc = "lock"
    /\ b_pc' = "send"
    /\ b_todo' = connections_
    /\ b_sent' = {}
    /\ UNCHANGED <<connections_, b_msg, b_stop, otherVars>>

\* broadcast: conn->send_text(message) for one observer of the loop
BrSend(h) ==
    /\ b_pc = "send"
    /\ h \in b_todo
    /\ b_todo' = b_todo \ {h}
    /\ b_sent' = b_sent \cup {h}
    /\ UNCHANGED <<connections_, b_pc, b_msg, b_stop, otherVars>>

\* broadcast returns: the lock is released
BrUnlock ==
    /\ b_pc = "send"
    /\ b_todo = {}
    /\ b_pc' = "sleep"
    /\ UNCHANGED <<connections_, b_msg, b_todo, b_sent, b_stop, otherVars>>

\* ~DashboardBroadcaster: ~jthread requests stop
BrStop ==
    /\ ~b_stop
    /\ b_stop' = TRUE
    /\ UNCHANGED <<connections_, b_pc, b_msg, b_todo, b_sent, otherVars>>

Ticker ==
    \/ BrWake
    \/ BrFetch
    \/ \E outcome \in PsOutcomes : BrQuery(outcome)
    \/ BrLock
    \/ \E h \in Handles : BrSend(h)
    \/ BrUnlock

\* --------------------------------------------------------- specifications
InitStarred ==
    /\ st_op = NoCall
    /\ st_prev = NoCall
    /\ st_before = {}

NoReplay == [id |-> 0, n |-> 0]

\* the keys the cache table is looked up under
Keys == Bodies \cup {m \in WsMsgs : ValidJson(m)}

InitAdmin ==
    /\ db_metrics = NoDbMetrics
    /\ cfg = NoConfigRequest
    /\ cache_by = [k \in Keys |-> "none"]

InitBroadcaster ==
    /\ connections_ = {}
    /\ b_pc = "sleep"
    /\ b_msg = "none"
    /\ b_todo = {}
    /\ b_sent = {}
    /\ b_stop = FALSE

InitTools ==
    /\ response = << >>
    /\ metrics = NoMetrics
    /\ caught = FALSE
    /\ InitStarred
    /\ InitBroadcaster
    /\ rp = NoReplay
    /\ InitAdmin

InitStoreEmpty ==
    /\ requests = {}
    /\ seq = 0
    /\ preloaded = 0
    /\ write_queue_ = << >>
    /\ shutdown_requested_ = FALSE
    /\ stop_requested = FALSE
    /\ db_open = TRUE
    /\ w_pc = "loop"
    /\ w_final = FALSE
    /\ w_task = NoTask
    /\ d_pc = "alive"
    /\ notifier = {}
    /\ submitted = 0

InitHttp ==
    /\ h_pc = "idle"
    /\ h_body = "p"
    /\ h_nocache = ""
    /\ h_endpoint = "/api/generate"
    /\ h_elapsed = 0
    /\ h_ttft_ms = 0
    /\ h_accum = << >>
    /\ h_res = NoResponse
    /\ h_client = NoResponse
    /\ h_result = "none"
    /\ h_chunks = << >>
    /\ h_lookups = 0
    /\ h_puts = 0
    /\ h_entry = NoTask
    /\ h_flag_off = FALSE
    /\ h_trace = << >>

InitChat ==
    /\ ws_conn = "new"
    /\ active = FALSE
    /\ ws = << >>

\* the cache table is persistent: it is empty, or holds what an earlier run of
\* the proxy stored
WarmCache == [k \in Keys |-> IF k = "p" THEN [status |-> 200, body |-> <<"x">>]
                                         ELSE NoEntry]

Init ==
    /\ InitStoreEmpty
    /\ InitHttp
    /\ InitChat
    /\ InitTools
    /\ cache \in {[k \in Keys |-> NoEntry], WarmCache}
    /\ cache_enabled_ = TRUE
    /\ calls = 0

proxyVars == <<cache, cache_enabled_, calls, httpVars, wsVars, toolVars>>

StoreStep == ProcessWriteQueue /\ UNCHANGED proxyVars

Next == Http \/ Chat \/ StoreStep

Spec == Init /\ [][Next]_vars

\* The store alone, at the grain of its statements: a caller submits entries,
\* the worker runs, ~Database may run.  The requests table is persistent: it is
\* empty or holds the rows of earlier runs.
PreEntry == LogEntry("/api/generate", "p", 200, <<"x">>, 1, 1, "forward")
HitEntry == LogEntry("/api/generate", "p", 200, <<"x">>, 0, 0, "hit")
StoreEntries == {PreEntry, HitEntry}

InitStore ==
    /\ preloaded \in {0, PreRows}
    /\ requests = {Row(i, PreEntry) : i \in 1..preloaded}
    /\ seq = preloaded
    /\ write_queue_ = << >>
    /\ shutdown_requested_ = FALSE
    /\ stop_requested = FALSE
    /\ db_open = TRUE
    /\ w_pc = "loop"
    /\ w_final = FALSE
    /\ w_task = NoTask
    /\ d_pc = "alive"
    /\ notifier = {}
    /\ submitted = 0
    /\ InitHttp
    /\ InitChat
    /\ InitTools
    /\ cache = [k \in Keys |-> NoEntry]
    /\ cache_enabled_ = TRUE
    /\ calls = 0

Submit == \E t \in Callers, entry \in StoreEntries : SubmitLog(t, entry)
Notify == \E t \in Callers : LogNotify(t)

WorkerStep == Worker /\ UNCHANGED proxyVars
NotifyStep == Notify /\ UNCHANGED proxyVars

NextStoreRun ==
    \/ Submit /\ UNCHANGED proxyVars
    \/ NotifyStep
    \/ WorkerLoop /\ UNCHANGED proxyVars
    \/ WorkerWait /\ UNCHANGED proxyVars
    \/ WorkerInsert /\ UNCHANGED proxyVars
    \/ WorkerPrune /\ UNCHANGED proxyVars
    \/ WorkerSpurious /\ UNCHANGED proxyVars

NextStore ==
    \/ NextStoreRun
    \/ DtorSignal /\ UNCHANGED proxyVars
    \/ DtorNotify /\ UNCHANGED proxyVars
    \/ DtorClose /\ UNCHANGED proxyVars
    \/ DtorStop /\ UNCHANGED proxyVars
    \/ DtorJoin /\ UNCHANGED proxyVars

\* the store with ~Database
SpecStore == InitStore /\ [][NextStore]_vars

\* the running store: the worker thread and a caller between its push and its
\* notify_one are scheduled; spurious wake-ups are not relied on
SpecStoreLive ==
    /\ InitStore
    /\ [][NextStoreRun]_vars
    /\ WF_vars(WorkerStep)
    /\ WF_vars(NotifyStep)

\* the store with submissions that can be told apart: the k-th entry submitted
\* carries k as its duration_ms
SerialEntry(k) == LogEntry("/api/generate", "p", 200, <<"x">>, k, k, "forward")

SubmitSerial == \E t \in Callers : SubmitLog(t, SerialEntry(submitted + 1))

NextOrder ==
    \/ SubmitSerial /\ UNCHANGED proxyVars
    \/ NotifyStep
    \/ WorkerLoop /\ UNCHANGED proxyVars
    \/ WorkerWait /\ UNCHANGED proxyVars
    \/ WorkerInsert /\ UNCHANGED proxyVars
    \/ WorkerPrune /\ UNCHANGED proxyVars
    \/ WorkerSpurious /\ UNCHANGED proxyVars

SpecOrder == InitStore /\ [][NextOrder]_vars

\* the store from its start to the end of ~Database: once the destructor has
\* begun its thread runs on, and so does the worker thread
DtorRun == (DtorNotify \/ DtorClose \/ DtorStop \/ DtorJoin) /\ UNCHANGED proxyVars

SpecShutdown ==
    /\ InitStore
    /\ [][NextStore]_vars
    /\ WF_vars(WorkerStep)
    /\ WF_vars(NotifyStep)
    /\ WF_vars(DtorRun)

\* the running store with a reader: GET /api/metrics on a server thread while
\* callers submit and the worker writes
NextScan ==
    \/ Submit /\ UNCHANGED proxyVars
    \/ NotifyStep
    \/ WorkerLoop /\ UNCHANGED proxyVars
    \/ WorkerWait /\ UNCHANGED proxyVars
    \/ WorkerInsert /\ UNCHANGED proxyVars
    \/ WorkerPrune /\ UNCHANGED proxyVars
    \/ WorkerSpurious /\ UNCHANGED proxyVars
    \/ MetricsTotal
    \/ MetricsLatency
    \/ MetricsHits

\* the reader is followed on a table that starts empty
InitScan == InitStore /\ preloaded = 0

SpecScan == InitScan /\ [][NextScan]_vars

\* the running store when an INSERT may fail (disk full, database locked)
NextFail ==
    \/ SubmitSerial /\ UNCHANGED proxyVars
    \/ NotifyStep
    \/ WorkerLoop /\ UNCHANGED proxyVars
    \/ WorkerWait /\ UNCHANGED proxyVars
    \/ WorkerInsert /\ UNCHANGED proxyVars
    \/ WorkerInsertFails /\ UNCHANGED proxyVars
    \/ WorkerPrune /\ UNCHANGED proxyVars
    \/ WorkerSpurious /\ UNCHANGED proxyVars

\* the worker thread is scheduled, whatever its INSERTs return
WorkerFailStep ==
    (WorkerLoop \/ WorkerWait \/ WorkerInsert \/ WorkerInsertFails \/ WorkerPrune)
        /\ UNCHANGED proxyVars

SpecFail ==
    /\ InitStore
    /\ [][NextFail]_vars
    /\ WF_vars(WorkerFailStep)
    /\ WF_vars(NotifyStep)

\* the store over a table in which the user has starred the rows of odd id
InitStarredHistory ==
    /\ preloaded \in {0, PreRows}
    /\ requests = {[Row(i, PreEntry) EXCEPT !.is_starred = (i % 2 = 1)] :
                      i \in 1..preloaded}
    /\ seq = preloaded
    /\ write_queue_ = << >>
    /\ shutdown_requested_ = FALSE
    /\ stop_requested = FALSE
    /\ db_open = TRUE
    /\ w_pc = "loop"
    /\ w_final = FALSE
    /\ w_task = NoTask
    /\ d_pc = "alive"
    /\ notifier = {}
    /\ submitted = 0
    /\ InitHttp
    /\ InitChat
    /\ InitTools
    /\ cache = [k \in Keys |-> NoEntry]
    /\ cache_enabled_ = TRUE
    /\ calls = 0

SpecPrune == InitStarredHistory /\ [][NextOrder]_vars

\* one /ws/chat connection that takes up to MaxTurns messages
NextChat ==
    \/ OnOpen
    \/ \E message \in WsMsgs : OnMessageUpTo(message, MaxTurns)
    \/ OnClose
    \/ \E i \in Workers : WsStart(i)
    \/ \E i \in Workers, dt \in Delays :
           \E chunk \in NextChunks(ws[i].chunks) : WsSinkEnter(i, chunk, dt)
    \/ \E i \in Workers : WsSinkSend(i)
    \/ \E i \in Workers, status \in Statuses : WsSendReturns(i, TRUE, status)
    \/ \E i \in Workers : WsSendReturns(i, FALSE, 0)
    \/ \E i \in Workers, dt \in Delays : WsPost(i, dt)
    \/ \E i \in Workers : WsPostCache(i)
    \/ StoreStep

SpecChat == Init /\ [][NextChat]_vars

\* the proxy with both of its routes to the cache table: POSTs to
\* /api/generate and /api/chat and the messages of a /ws/chat connection
ProxyEndpoints == {"/api/generate", "/api/chat"}

NextShared ==
    \/ \E body \in Bodies, header \in NoCacheHeaders, endpoint \in ProxyEndpoints :
           HandleRequestUpTo(body, header, endpoint, MaxTurns) /\ UNCHANGED rp
    \/ \E chunk \in NextChunks(h_chunks), dt \in Delays : ContentReceiver(chunk, dt)
    \/ \E status \in Statuses, dt \in Delays : SendSucceeds(status, dt)
    \/ \E err \in SendErrors, dt \in Delays : SendFails(err, dt)
    \/ OnOpen
    \/ \E message \in WsMsgs : OnMessageUpTo(message, MaxTurns)
    \/ OnClose
    \/ \E i \in Workers : WsStart(i)
    \/ \E i \in Workers, dt \in Delays :
           \E chunk \in NextChunks(ws[i].chunks) : WsSinkEnter(i, chunk, dt)
    \/ \E i \in Workers : WsSinkSend(i)
    \/ \E i \in Workers, status \in Statuses : WsSendReturns(i, TRUE, status)
    \/ \E i \in Workers : WsSendReturns(i, FALSE, 0)
    \/ \E i \in Workers, dt \in Delays : WsPost(i, dt)
    \/ \E i \in Workers : WsPostCache(i)
    \/ StoreStep

SpecShared == Init /\ [][NextShared]_vars

\* extractMetrics alone, on every body of at most MaxBodyLen pieces
InitExtract ==
    /\ InitStoreEmpty
    /\ InitHttp
    /\ InitChat
    /\ cache = [k \in Keys |-> NoEntry]
    /\ cache_enabled_ = TRUE
    /\ calls = 0
    /\ response \in ResponseBodies
    /\ metrics = NoMetrics
    /\ caught = FALSE
    /\ InitStarred
    /\ InitBroadcaster
    /\ rp = NoReplay
    /\ InitAdmin

NextExtract == ExtractMetrics

SpecExtract == InitExtract /\ [][NextExtract]_vars

\* setStarred alone, on a table that holds the rows lo..hi of earlier calls,
\* starred or not
StarIds == 0..(MaxRows + 1)

InitStarredTable ==
    /\ \E lo \in 1..(MaxRows + 1), hi \in 0..MaxRows :
          /\ preloaded = (IF hi >= lo THEN hi - lo + 1 ELSE 0)
          /\ seq = hi
          /\ \E stars \in SUBSET (lo..hi) :
                requests = {[Row(i, PreEntry) EXCEPT !.is_starred = (i \in stars)] :
                               i \in lo..hi}
    /\ write_queue_ = << >>
    /\ shutdown_requested_ = FALSE
    /\ stop_requested = FALSE
    /\ db_open = TRUE
    /\ w_pc = "loop"
    /\ w_final = FALSE
    /\ w_task = NoTask
    /\ d_pc = "alive"
    /\ notifier = {}
    /\ submitted = 0
    /\ InitHttp
    /\ InitChat
    /\ InitTools
    /\ cache = [k \in Keys |-> NoEntry]
    /\ cache_enabled_ = TRUE
    /\ calls = 0

NextStarred == \E id \in StarIds, is_starred \in BOOLEAN : setStarred(id, is_starred)

SpecStarred == InitStarredTable /\ [][NextStarred]_vars

\* the dashboard broadcaster: observers come and go while the ticker runs
NextBroadcastRun ==
    \/ \E h \in Handles : addConnection(h)
    \/ \E h \in Handles : removeConnection(h)
    \/ BrWake
    \/ BrFetch
    \/ \E outcome \in PsOutcomes : BrQuery(outcome)
    \/ BrLock
    \/ \E h \in Handles : BrSend(h)
    \/ BrUnlock

NextBroadcast ==
    \/ NextBroadcastRun
    \/ BrStop

SpecBroadcast == Init /\ [][NextBroadcast]_vars

\* the running broadcaster: the ticker thread is scheduled
SpecBroadcastLive ==
    /\ Init
    /\ [][NextBroadcastRun]_vars
    /\ WF_vars(Ticker)

\* getMetrics on a quiet store: the table holds rows 1..n with any of these
\* durations
RowDurations == {0, 1, 2, 5}

InitMetricsTable ==
    /\ \E n \in 0..MaxRows :
          /\ preloaded = n
          /\ seq = n
          /\ \E d \in [1..n -> RowDurations] :
                requests = {Row(i, LogEntry("/api/generate", "p", 200, <<"x">>, d[i],
                                            d[i], IF d[i] = 0 THEN "hit" ELSE "forward")) :
                               i \in 1..n}
    /\ write_queue_ = << >>
    /\ shutdown_requested_ = FALSE
    /\ stop_requested = FALSE
    /\ db_open = TRUE
    /\ w_pc = "loop"
    /\ w_final = FALSE
    /\ w_task = NoTask
    /\ d_pc = "alive"
    /\ notifier = {}
    /\ submitted = 0
    /\ InitHttp
    /\ InitChat
    /\ InitTools
    /\ cache = [k \in Keys |-> NoEntry]
    /\ cache_enabled_ = TRUE
    /\ calls = 0

NextMetrics == GetMetrics

SpecMetrics == InitMetricsTable /\ [][NextMetrics]_vars

\* the cache configuration routes next to proxied HTTP calls
NextConfig ==
    \/ \E body \in ConfigBodies : ConfigPost(body)
    \/ ConfigGet
    \/ \E body \in Bodies, header \in NoCacheHeaders, endpoint \in Endpoints :
           ProxyRoute(body, header, endpoint)
    \/ \E chunk \in NextChunks(h_chunks), dt \in Delays : ContentReceiver(chunk, dt)
    \/ \E status \in Statuses, dt \in Delays : SendSucceeds(status, dt)
    \/ \E err \in SendErrors, dt \in Delays : SendFails(err, dt)
    \/ StoreStep

SpecConfig == Init /\ [][NextConfig]_vars

\* replay requests against a requests table and a cache that an earlier run
\* left: row 1 is a forwarded call whose response was stored, row 2 one whose
\* response (a 404) was not
MissEntry == LogEntry("/api/generate", "q", 404, <<"x">>, 1, 1, "forward")
ReplayIds == 0..3

InitReplay ==
    /\ requests = {Row(1, PreEntry), Row(2, MissEntry)}
    /\ seq = 2
    /\ preloaded = 2
    /\ write_queue_ = << >>
    /\ shutdown_requested_ = FALSE
    /\ stop_requested = FALSE
    /\ db_open = TRUE
    /\ w_pc = "loop"
    /\ w_final = FALSE
    /\ w_task = NoTask
    /\ d_pc = "alive"
    /\ notifier = {}
    /\ submitted = 0
    /\ InitHttp
    /\ InitChat
    /\ InitTools
    /\ cache = WarmCache
    /\ cache_enabled_ = TRUE
    /\ calls = 0

NextReplay ==
    \/ \E id \in ReplayIds : Replay(id)
    \/ \E chunk \in NextChunks(h_chunks), dt \in Delays : ContentReceiver(chunk, dt)
    \/ \E status \in Statuses, dt \in Delays : SendSucceeds(status, dt)
    \/ \E err \in SendErrors, dt \in Delays : SendFails(err, dt)
    \/ \E enabled \in BOOLEAN : setCacheEnabled(enabled)
    \/ StoreStep

SpecReplay == InitReplay /\ [][NextReplay]_vars

\* ------------------------------------------------------------------ claims
\* every log entry submitted so far: queued, or written as a row
Submitted ==
    {write_queue_[k] : k \in 1..Len(write_queue_)} \cup {r.e : r \in requests}

\* C1: a proxied POST that carries X-SectorFlux-No-Cache: true performs no
\* cache lookup and no cache insert or replace.
C1_NoCacheHeaderLeavesCache ==
    h_nocache = "true" => (h_lookups = 0 /\ h_puts = 0)

\* C2: a row of the request log has duration_ms = 0 if and only if a cache-hit
\* path produced it.
C2_ZeroDurationIffHit ==
    \A r \in requests : (r.e.duration_ms = 0) <=> (r.e.via = "hit")

\* C3: in every state a reader can observe, the requests table holds at most
\* kMaxHistoryEntries rows.
C3_AtMostMaxHistoryRows == Cardinality(requests) <= kMaxHistoryEntries

\* C4: once submissions stop, the worker drains the queue and the row count
\* settles at min(rows at start + submissions, kMaxHistoryEntries): no entry
\* is lost to a missed wake-up.
C4_DrainsToMin ==
    <>[](/\ write_queue_ = << >>
         /\ Cardinality(requests) = Min(preloaded + submitted, kMaxHistoryEntries))

C4_Witness ==
    /\ preloaded + submitted > kMaxHistoryEntries
    /\ submitted >= 2
    /\ write_queue_ = << >>
    /\ w_pc = "blocked"
    /\ Cardinality(requests) = kMaxHistoryEntries

\* C5: once shutdown has begun, every queued task is executed before the store
\* handle is closed and before the worker exits.
C5_DrainedBeforeCloseAndExit ==
    (~db_open \/ w_pc = "exited") => (write_queue_ = << >> /\ w_task = NoTask)

\* C6: after the close handler has run, the next call of a worker's chunk sink
\* returns false: the worker receives at most one more chunk and its upstream
\* read ends there.
C6_AbortsAtNextChunk ==
    \A i \in Workers :
        ws[i].after_close >= 1 =>
            /\ ws[i].after_close = 1
            /\ ws[i].pc \in {"post", "done"}
            /\ ~ws[i].ok

C6_Witness ==
    \E i \in Workers :
        /\ ws[i].after_close = 1
        /\ ws[i].full_response # << >>
        /\ Len(ws[i].chunks) = Len(ws[i].full_response) + 1

\* C7: a /ws/chat turn whose connection was closed before its upstream call
\* returned submits no log entry and writes no cache entry.
C7_ClosedTurnLeavesNoTrace ==
    \A i \in Workers :
        ws[i].closed_early => (ws[i].logged = 0 /\ ws[i].puts = 0)

C7_Witness ==
    \E i \in Workers :
        /\ ws[i].closed_early
        /\ ws[i].pc = "done"
        /\ ws[i].ok
        /\ ws[i].status = 200
        /\ ws[i].full_response # << >>

\* C8: after an HTTP forward whose upstream call succeeded, the body the
\* client got and the response_body of the submitted log entry are both the
\* concatenation of the chunks upstream sent, in order.
C8_BodyIsConcatenation ==
    (h_pc = "idle" /\ h_result = "ok") =>
        /\ h_client.body = Concat(h_chunks)
        /\ h_entry.response_body = Concat(h_chunks)
        /\ h_entry \in Submitted

C8_Witness ==
    /\ h_pc = "idle"
    /\ h_result = "ok"
    /\ Len(h_chunks) >= 2
    /\ h_client.body = <<"x", "y">>

\* C9: on the HTTP forward path each chunk is flushed to the client as it is
\* received: between two chunks the client holds every chunk received so far.
C9_FlushedPerChunk ==
    (h_pc = "send" /\ h_chunks # << >>) => h_client.body = Concat(h_chunks)

\* C10: every log entry submitted by a forward path, HTTP or /ws/chat, has
\* 0 <= ttft_ms <= duration_ms.
C10_TtftWithinDuration ==
    \A e \in Submitted :
        e.via = "forward" => (0 <= e.ttft_ms /\ e.ttft_ms <= e.duration_ms)

C10_Witness ==
    \E e \in Submitted :
        /\ e.via = "forward"
        /\ e.endpoint = "/api/chat"
        /\ e.ttft_ms >= 1
        /\ e.ttft_ms = e.duration_ms

\* C11: a proxied call, HTTP or /ws/chat, during which the cache flag is false
\* from its start to its end inserts or replaces no cache entry.
C11_FlagOffStoresNothing ==
    /\ h_flag_off => h_puts = 0
    /\ \A i \in Workers : ws[i].flag_off => ws[i].puts = 0

\* C12: an HTTP proxied POST with body B is answered from the cache (HIT, the
\* stored status and body, no upstream call) exactly when the flag is true, the
\* bypass header is absent and an entry is stored under B; otherwise upstream
\* is called once and the response carries MISS.  A stored entry is never
\* evicted.
C12_HitIffEligibleAndStored ==
    [][/\ (h_pc = "idle" /\ calls' # calls /\ ws' = ws) =>
            LET stored == cache[h_body']
                hit == cache_enabled_ /\ h_nocache' # "true" /\ stored # NoEntry
            IN  IF hit
                  THEN /\ h_res' = [code |-> stored.status, body |-> stored.body,
                                    cache |-> "HIT"]
                       /\ h_client' = h_res'
                       /\ h_pc' = "idle"
                  ELSE /\ h_res'.cache = "MISS"
                       /\ h_client' = NoResponse
                       /\ h_pc' = "send"
       /\ (h_pc = "send" /\ h_pc' = "idle") =>
            /\ h_result = "none"
            /\ h_result' \in {"ok", "error"}
            /\ h_client'.cache = "MISS"
       /\ \A k \in DOMAIN cache : cache[k] # NoEntry => cache'[k] # NoEntry
      ]_vars

C12_Witness ==
    /\ h_pc = "idle"
    /\ h_res.cache = "HIT"
    /\ h_lookups = 1
    /\ h_client = [code |-> 200, body |-> <<"x">>, cache |-> "HIT"]
    /\ h_entry.via = "hit"

\* The reference C13 names, written from the claim: the lines of the body, the
\* last one first; the first line that parses as a JSON object and carries a
\* telemetry field or has done == true gives the result.
RECURSIVE RefSplit(_)
RefSplit(body) ==
    LET breaks == {i \in 1..Len(body) : body[i] = "\n"}
    IN  IF breaks = {} THEN <<body>>
        ELSE <<SubSeq(body, 1, Least(breaks) - 1)>> \o
             RefSplit(SubSeq(body, Least(breaks) + 1, Len(body)))

RECURSIVE RefStrip(_)
RefStrip(line) ==
    IF line = << >> THEN line
    ELSE IF Head(line) = " " THEN RefStrip(Tail(line))
    ELSE IF line[Len(line)] = " " THEN RefStrip(SubSeq(line, 1, Len(line) - 1))
    ELSE line

RefObject(line) ==
    LET text == RefStrip(line)
    IN  IF Len(text) = 1 /\ text[1] \in DOMAIN Json THEN Json[text[1]] ELSE NoJson

RefStops(o) ==
    /\ o # NoJson
    /\ \/ \E f \in {"prompt_eval_count", "eval_count", "prompt_eval_duration",
                    "eval_duration"} : o[f] # Absent
       \/ (o.done.t = "bool" /\ o.done.v)

RefNum(value) == IF value.t = "number" THEN value.v ELSE 0

RefValue(o) ==
    [prompt_tokens |-> RefNum(o.prompt_eval_count),
     completion_tokens |-> RefNum(o.eval_count),
     prompt_eval_duration_ms |-> RefNum(o.prompt_eval_duration) \div 1000000,
     eval_duration_ms |-> RefNum(o.eval_duration) \div 1000000]

RECURSIVE RefScan(_)
RefScan(lines) ==
    IF lines = << >> THEN ZeroMetrics
    ELSE LET o == RefObject(lines[Len(lines)])
         IN  IF RefStops(o) THEN RefValue(o)
             ELSE RefScan(SubSeq(lines, 1, Len(lines) - 1))

Reference(body) == RefScan(RefSplit(body))

\* C13: for every body, extractMetrics returns what the reference returns.
C13_ExtractEqualsReference ==
    metrics # NoMetrics => metrics = Reference(response)

\* C14: extractMetrics raises nothing, and a call that hit an internal error
\* while reading a line returns the all-zero record.
C14_ErrorGivesZeros ==
    (metrics # NoMetrics /\ caught) => metrics = ZeroMetrics

\* C15: setStarred(id, v) changes nothing but is_starred of row id, creates no
\* row, leaves is_starred of row id at v, and applied twice leaves the table as
\* applied once; setStarred(id, not v) after setStarred(id, v) flips the row.
C15_SetStarredIdempotentLocal ==
    st_op.made =>
        /\ {r.id : r \in requests} = {b.id : b \in st_before}
        /\ Cardinality(requests) = Cardinality(st_before)
        /\ \A r \in requests : \E b \in st_before :
               /\ b.id = r.id
               /\ b.e = r.e
               /\ r.id # st_op.id => r = b
               /\ r.id = st_op.id => r.is_starred = st_op.is_starred
        /\ (st_prev = st_op) => requests = st_before
        /\ (st_prev.made /\ st_prev.id = st_op.id
               /\ st_prev.is_starred # st_op.is_starred) =>
               \A b \in st_before : b.id = st_op.id =>
                   (b.is_starred # st_op.is_starred /\ b \notin requests)

C15_Witness ==
    /\ st_prev = st_op
    /\ st_op.made
    /\ st_op.is_starred
    /\ \E r \in requests : r.id = st_op.id /\ r.is_starred
    /\ \E r \in requests : r.id # st_op.id /\ ~r.is_starred

\* C16: a frame goes only to a handle that is in the observer set when it is
\* sent, so none goes to a handle whose removal has returned, and a broadcast
\* ends having sent to exactly the observers in the set.
C16_SendsToCurrentObservers ==
    [][/\ \A h \in Handles :
              (h \in b_sent' /\ h \notin b_sent) =>
                  (h \in connections_ /\ h \in connections_')
       /\ (b_pc = "send" /\ b_pc' = "sleep") => b_sent = connections_
      ]_vars

C16_Witness ==
    /\ b_pc = "send"
    /\ b_todo = {}
    /\ b_sent = {1}
    /\ connections_ = {1}
    /\ b_msg = "m"

\* C17: an observer that stays subscribed is sent a snapshot in every round of
\* the ticker, so infinitely often, whatever the /api/ps query of the round
\* gives.
C17_SubscribedObserverKeepsReceiving ==
    \A h \in Handles :
        <>[](h \in connections_) =>
            /\ []<>(b_pc = "send" /\ h \in b_sent)
            /\ [](b_pc = "lock" => <>(b_pc = "send" /\ h \in b_sent))

C17_Witness ==
    /\ b_msg = "Ollama Offline"
    /\ b_pc = "send"
    /\ 2 \in b_sent
    /\ 2 \in connections_

\* C18: a replay of an existing row sends the row's request_body to the row's
\* endpoint with the bypass header: no cache lookup, upstream is called, and
\* the call submits one log entry; a replay of an absent id answers 404 with no
\* upstream call, no log entry and the cache as it was.
C18_ReplayCallsUpstreamOr404 ==
    [][/\ rp'.n # rp.n =>
            IF HasLog(rp'.id)
              THEN /\ h_body' = getLog(rp'.id).e.request_body
                   /\ h_endpoint' = getLog(rp'.id).e.endpoint
                   /\ h_nocache' = "true"
                   /\ h_lookups' = 0
                   /\ h_res'.cache = "MISS"
                   /\ h_pc' = "send"
                   /\ calls' = calls + 1
                   /\ submitted' = submitted
              ELSE /\ h_client' = [code |-> 404, body |-> <<"Log entry not found">>,
                                   cache |-> "none"]
                   /\ h_pc' = "idle"
                   /\ calls' = calls
                   /\ submitted' = submitted
                   /\ write_queue_' = write_queue_
                   /\ cache' = cache
       /\ submitted' # submitted =>
            /\ h_pc = "send"
            /\ h_pc' = "idle"
            /\ h_result' \in {"ok", "error"}
            /\ submitted' = submitted + 1
            /\ h_entry'.request_body = h_body
            /\ h_entry'.endpoint = h_endpoint
            /\ h_entry'.via = "forward"
      ]_vars

C18_Witness ==
    /\ rp = [id |-> 1, n |-> 1]
    /\ cache_enabled_
    /\ h_body = "p"
    /\ h_pc = "idle"
    /\ h_result = "ok"
    /\ h_client.cache = "MISS"
    /\ h_client.code = 404
    /\ submitted = 1

\* C19: when the upstream call of an HTTP proxied POST fails, the client is
\* sent status 500 with the body "Error forwarding request to Ollama: " and
\* the reason, one log entry with response_status 500 and the duration that
\* elapsed is submitted, the cache is left as it was, and the call is over:
\* no second upstream call is made.
C19_UpstreamFailureGives500 ==
    [][(h_pc = "send" /\ h_result' = "error") =>
          \E err \in SendErrors :
              /\ h_client' = [code |-> 500,
                              body |-> <<"Error forwarding request to Ollama: ", err>>,
                              cache |-> "MISS"]
              /\ submitted' = submitted + 1
              /\ write_queue_' = Append(write_queue_, h_entry')
              /\ h_entry'.response_status = 500
              /\ h_entry'.response_body = h_client'.body
              /\ h_entry'.request_body = h_body
              /\ h_entry'.duration_ms = h_elapsed' \div 1000000
              /\ h_elapsed' >= h_elapsed
              /\ cache' = cache
              /\ h_puts' = 0
              /\ calls' = calls
              /\ h_pc' = "idle"
      ]_vars

C19_Witness ==
    /\ h_result = "error"
    /\ h_pc = "idle"
    /\ h_chunks = <<"x">>
    /\ h_client.code = 500
    /\ h_entry.response_status = 500
    /\ h_entry.duration_ms = 2
    /\ cache[h_body] = NoEntry

\* C20: every entry of the cache has response_status 200 and a non-empty body,
\* whatever HTTP and /ws/chat calls have run.
C20_CacheHolds200NonEmpty ==
    \A k \in DOMAIN cache :
        cache[k] # NoEntry => (cache[k].status = 200 /\ cache[k].body # << >>)

C20_Witness ==
    /\ cache["q"] = [status |-> 200, body |-> <<"x", "y">>]
    /\ h_puts = 1
    /\ h_client.code = 200

\* the durations of the rows with ids lo..hi, added up id by id
RECURSIVE RefTotal(_, _)
RefTotal(lo, hi) ==
    IF hi < lo THEN 0
    ELSE (CHOOSE r \in requests : r.id = hi).e.duration_ms + RefTotal(lo, hi - 1)

\* C21: on a quiet store getMetrics returns total_requests = the number of
\* rows, cache_hit_rate = rows with duration_ms = 0 over total_requests (0 for
\* an empty log), and avg_latency_ms = the mean of duration_ms over all rows,
\* the zeros included.
C21_MetricsOfQuietStore ==
    db_metrics # NoDbMetrics =>
        LET n == Cardinality(requests)
            zeros == Cardinality({r \in requests : r.e.duration_ms = 0})
        IN  /\ db_metrics.total_requests = n
            /\ db_metrics.cache_hit_rate.den > 0
            /\ db_metrics.avg_latency_ms.den > 0
            /\ db_metrics.cache_hit_rate.num * n = zeros * db_metrics.cache_hit_rate.den
            /\ n = 0 => db_metrics.cache_hit_rate.num = 0
            /\ db_metrics.avg_latency_ms.num * n =
                   RefTotal(1, n) * db_metrics.avg_latency_ms.den

C21_Witness ==
    /\ db_metrics # NoDbMetrics
    /\ db_metrics.total_requests = 3
    /\ db_metrics.cache_hit_rate = Ratio(1, 3)
    /\ db_metrics.avg_latency_ms = Ratio(7, 3)

\* C22: every write to the store (log insert, prune, cache insert-or-replace,
\* starred update) is made by the writer worker: a step that changes a table
\* is no step of an HTTP server thread, a /ws/chat worker or a route handler.
C22_OnlyWriterWrites ==
    [][(cache' # cache \/ requests' # requests) =>
          (httpVars' = httpVars /\ wsVars' = wsVars /\ starVars' = starVars)]_vars

\* C23: a POST /api/config/cache whose body is JSON with a field enabled is
\* answered 200 and sets the flag to the value of the field; a body that is no
\* JSON or has no field enabled is answered 400 and leaves the flag as it was;
\* GET returns the flag, and a call that starts reads it.
C23_ConfigSetsFlagOr400 ==
    [][/\ cfg'.op = "post" /\ cfg' # cfg =>
            IF cfg'.body \in {"on", "off", "one", "null"}
              THEN /\ cfg'.code = 200
                   /\ cfg'.body = "on" => cache_enabled_'
                   /\ cfg'.body = "off" => ~cache_enabled_'
              ELSE /\ cfg'.code = 400
                   /\ cache_enabled_' = cache_enabled_
       /\ cfg'.op = "get" /\ cfg' # cfg =>
            /\ cfg'.code = 200
            /\ cfg'.text = "true" <=> cache_enabled_
       /\ calls' # calls => (h_lookups' = 0 <=> (~cache_enabled_ \/ h_nocache' = "true"))
      ]_vars

\* C24: on a forward path ttft_ms is assigned at the first upstream chunk and
\* no later chunk changes it, on the HTTP path and on /ws/chat, whenever the
\* first chunk arrives.
C24_TtftSetAtFirstChunkOnly ==
    [][/\ (h_pc = "send" /\ h_chunks # << >>) => h_ttft_ms' = h_ttft_ms
       /\ \A i \in DOMAIN ws :
              (i \in DOMAIN ws' /\ ws[i].chunks # << >>) =>
                  ws'[i].ttft_ms = ws[i].ttft_ms
      ]_vars

\* the rows written in this run (the table held ids 1..preloaded at start)
NewRows == {r \in requests : r.id > preloaded}

\* C25: tasks are executed in the order of their submission: of two rows
\* written in this run the one submitted earlier has the smaller id, a row
\* written was submitted before every entry still queued, and a new row gets
\* an id above every id given out before, pruned rows included.
C25_FifoAndFreshIds ==
    /\ [](/\ \A r1, r2 \in NewRows :
                 (r1.e.duration_ms < r2.e.duration_ms) <=> (r1.id < r2.id)
          /\ \A r \in NewRows : \A k \in 1..Len(write_queue_) :
                 r.e.duration_ms < write_queue_[k].duration_ms
          /\ \A j, k \in 1..Len(write_queue_) :
                 j < k => write_queue_[j].duration_ms < write_queue_[k].duration_ms
          /\ \A r \in requests : r.id <= seq)
    /\ [][/\ seq' >= seq
          /\ \A r \in requests' \ requests :
                 /\ r.id > seq
                 /\ \A old \in requests : old.id < r.id
         ]_vars

C25_Witness ==
    /\ preloaded = PreRows
    /\ Cardinality(requests) = kMaxHistoryEntries
    /\ \A r \in requests : r.id >= 3
    /\ \A k \in 1..3 : \E r \in requests : r.id = PreRows + k /\ r.e.duration_ms = k
    /\ w_pc = "loop"

C27_PruneKeepsNewestHundred ==
    [][(w_pc = "prune" /\ w_pc' # "prune") =>
          /\ requests' = {r \in requests : r.id > seq - kMaxHistoryEntries}
          /\ Cardinality(requests') = Min(Cardinality(requests), kMaxHistoryEntries)
          /\ \A r \in requests' : \A gone \in requests \ requests' : gone.id < r.id
      ]_vars

C27_Witness ==
    /\ w_pc = "loop"
    /\ preloaded = PreRows
    /\ seq = PreRows + 3
    /\ Cardinality(requests) = kMaxHistoryEntries
    /\ \A r \in requests : r.id > seq - kMaxHistoryEntries
    /\ \E r \in requests : r.is_starred
    /\ \E r \in requests : r.id = seq

\* the worker's thread is running handleWebSocketRequest
Forwarding(i) == ws[i].pc # "done"

\* C28: at most one forwarding worker runs per /ws/chat connection at any
\* time.
C28_OneWorkerPerConnection ==
    \A i, j \in Workers : (Forwarding(i) /\ Forwarding(j)) => i = j

\* C29: once the close handler of a /ws/chat connection has run, the
\* connection stays closed, its active flag is false in every later state and
\* no worker is started for it.
C29_ClosedIsAbsorbing ==
    /\ [](ws_conn = "closed" => ~active)
    /\ [][ws_conn = "closed" => (ws_conn' = "closed" /\ Len(ws') = Len(ws))]_vars

C29_Witness ==
    /\ ws_conn = "closed"
    /\ Len(ws) = 2
    /\ ws[1].pc = "done"
    /\ ws[2].pc = "done"
    /\ ws[2].after_close = 1

\* C30: a /ws/chat message that is not valid JSON is answered with the
\* "Invalid JSON" error frame and causes no cache lookup, no upstream call, no
\* log entry and no cache entry; a turn whose upstream call failed or returned
\* a status other than 200, finishing while the session is active, is answered
\* with the "Failed to connect to Ollama" error frame and writes no log entry
\* and no cache entry
C30_ErrorTurnsLeaveNoTrace ==
    [][\A i \in DOMAIN ws :
          /\ (ws[i].pc = "start" /\ ~ValidJson(ws[i].msg) /\ ws'[i] # ws[i])
                => /\ ws'[i].pc = "done"
                   /\ ws'[i].err = "{\"error\": \"Invalid JSON\"}"
                   /\ ws'[i].lookups = 0 /\ ~ws'[i].upstream
                   /\ ws'[i].logged = 0 /\ ws'[i].puts = 0
                   /\ submitted' = submitted /\ write_queue_' = write_queue_
                   /\ cache' = cache
          /\ (ws[i].pc = "post" /\ ws'[i].pc # "post" /\ active
                  /\ (~ws[i].ok \/ ws[i].status # 200))
                => /\ ws'[i].pc = "done"
                   /\ ws'[i].err = "{\"error\": \"Failed to connect to Ollama\"}"
                   /\ ws'[i].logged = 0 /\ ws'[i].puts = 0
                   /\ submitted' = submitted /\ write_queue_' = write_queue_
                   /\ cache' = cache
          /\ (ws[i].pc = "done" /\ ws'[i] # ws[i])
                => (ws'[i].pc = "done" /\ ws'[i].err = ws[i].err
                    /\ ws'[i].logged = ws[i].logged /\ ws'[i].puts = ws[i].puts)]_vars

\* both error turns have happened on one connection: an invalid message, and a
\* streamed answer with status 404 that finished while the session was active
C30_Witness ==
    /\ Len(ws) = 2
    /\ ws[1].pc = "done" /\ ws[1].err = "{\"error\": \"Invalid JSON\"}"
    /\ ws[2].pc = "done" /\ ws[2].upstream /\ ws[2].status = 404
    /\ ws[2].err = "{\"error\": \"Failed to connect to Ollama\"}"
    /\ ws[2].logged = 0 /\ ws[2].puts = 0

\* ---------------------------------------------------------------------------
\* the positions of an event in the trace of a call
At(trace, ev) == {i \in DOMAIN trace : trace[i] = ev}

Queued(k) == \E i \in DOMAIN write_queue_ : write_queue_[i] = SerialEntry(k)
Running(k) == w_pc = "insert" /\ w_task = SerialEntry(k)

\* C32: a log task whose INSERT fails is dropped: the step leaves the table,
\* the sequence and the queue as they were and touches no response, the task
\* is never queued again, and the worker goes on: every queued task is still
\* taken and run
C32_FailedInsertIsDropped ==
    /\ [][/\ (w_pc = "insert" /\ w_pc' # "insert" /\ w_pc' # "prune") =>
                /\ requests' = requests /\ seq' = seq
                /\ write_queue_' = write_queue_
                /\ w_task' = NoTask /\ w_pc' = "loop"
                /\ httpVars' = httpVars /\ wsVars' = wsVars /\ cache' = cache
          /\ (write_queue_' # write_queue_ /\ Len(write_queue_') >= Len(write_queue_)) =>
                /\ submitted' = submitted + 1
                /\ write_queue_' = Append(write_queue_, SerialEntry(submitted'))]_vars
    /\ \A k \in 1..MaxSubmit : (Queued(k) ~> Running(k))
    /\ \A k \in 1..MaxSubmit : (Running(k) ~> ~Running(k))

\* the INSERT of the first entry failed and the second entry was written after
\* it: the table holds the second entry alone, under the first fresh id
C32_Witness ==
    /\ preloaded = 0 /\ submitted = 2
    /\ write_queue_ = << >> /\ w_pc = "blocked"
    /\ requests = {Row(1, SerialEntry(2))}

\* C33: a proxied HTTP POST is never answered from the cache with an entry a
\* /ws/chat turn stored, and a /ws/chat message is never answered from the
\* cache with an entry a proxied HTTP POST stored
C33_KeyspacesDisjoint ==
    [][/\ (ws' = ws /\ calls' # calls /\ h_res'.cache = "HIT") =>
            cache_by[h_body'] # "/ws/chat"
       /\ \A i \in DOMAIN ws :
            (ws[i].pc = "start" /\ ws'[i].pc = "done" /\ ws'[i].logged = 1) =>
                cache_by[ws[i].msg] \notin ProxyEndpoints]_vars

\* C34: a proxied HTTP POST to an endpoint is never answered from the cache
\* with an entry that a POST to the other endpoint stored
C34_HitIsOfSameEndpoint ==
    [][(ws' = ws /\ calls' # calls /\ h_res'.cache = "HIT"
          /\ cache_by[h_body'] \in ProxyEndpoints) =>
            cache_by[h_body'] = h_endpoint']_vars

\* C35: the end of a worker thread never releases the last reference to the
\* connection's state: when a worker ends, the map or a later worker still
\* holds one
C35_WorkerNeverReleasesLast ==
    [][\A i \in DOMAIN ws :
          (ws[i].pc # "done" /\ ws'[i].pc = "done") => UseCount' > 0]_vars

\* the step in which worker i calls conn.send_text: a chunk from the content
\* receiver, the Invalid JSON frame or a cached response at the start of the
\* turn, or the error frame after cli.send
SendsFrame(i) ==
    \/ ws[i].pc = "sinksend" /\ ws'[i].pc = "send"
    \/ ws[i].pc = "start" /\ ws'[i].pc = "done"
    \/ ws[i].pc = "post" /\ ws'[i].pc = "done" /\ ws'[i].err # ""

\* C36: once the close handler of the connection has completed, no worker
\* sends a text frame on the connection
C36_NoFrameAfterClose ==
    [][\A i \in DOMAIN ws : SendsFrame(i) => ws_conn # "closed"]_vars

\* C37: the worker has exited when the store handle is closed, so it never
\* runs a statement of a task on a closed handle
C37_WorkerExitedBeforeClose ==
    ~db_open => (w_pc = "exited" /\ w_task = NoTask)

\* C38: every result of getMetrics has a cache_hit_rate between 0 and 1: the
\* hit count it divides is at most the total it divides by
C38_HitRateAtMostOne ==
    "cache_hit_rate" \in DOMAIN db_metrics =>
        /\ 0 <= db_metrics.cache_hit_rate.num
        /\ db_metrics.cache_hit_rate.num <= db_metrics.cache_hit_rate.den

\* C39: once ~Database has signalled shutdown the worker thread ends and the
\* join of the destructor returns, whatever the queue holds and wherever the
\* worker was
C39_WorkerTerminates ==
    /\ shutdown_requested_ ~> w_pc = "exited"
    /\ shutdown_requested_ ~> d_pc = "done"
    /\ [](d_pc = "done" => w_pc = "exited")

\* the join has returned at the end of a shutdown that began with tasks queued
\* and caught the worker inside a task; one task is left in the queue
C39_Witness ==
    /\ d_pc = "done" /\ w_pc = "exited"
    /\ write_queue_ # << >>
    /\ Cardinality(requests) > preloaded
====
